---- MODULE Spec2Model ----
(***************************************************************************)
(* Model Artifact Manager of snownlp-train: the atomic model swap of       *)
(* snownlp_model_utils.py, the GUI's permanent deploy and its temporary    *)
(* evaluation sessions (SnowNLP训练测试工具.py), and the model catalog      *)
(* (ModelManager).                                                         *)
(*                                                                         *)
(* Files are modelled by content.  A file is a record [art, n]: the first  *)
(* n chunks of artifact art.  A complete file has n = ChunkCount; a file   *)
(* that shutil.copy2 is still writing has fewer.  The sentiment directory  *)
(* itself is taken to exist.                                               *)
(***************************************************************************)
EXTENDS Integers, Sequences, FiniteSets, TLC

\* Number of chunks shutil.copy2 writes for a whole artifact.
ChunkCount == 2

\* Number of calls one behaviour of a bounded specification starts.
MaxCalls == 2

\* The clock, in seconds, stops at MaxClock.
MaxClock == 3

\* Number of models one comparison is given.
MaxModels == 3

\* Number of samples in the test data of a comparison.
MaxSamples == 2

\* The sizes a training's output file may have run from 1 to MaxSize.
MaxSize == 2

\* ------------------------------------------------------------------ files
NoFile == [art |-> "-", n |-> 0]
Empty == [art |-> "", n |-> 0]

Exists(f) == f # NoFile

Whole(a) == [art |-> a, n |-> ChunkCount]

\* The first k chunks of artifact a (an open(dst, 'wb') leaves the empty file).
Prefix(a, k) == IF k = 0 THEN Empty ELSE [art |-> a, n |-> k]

\* The live slots, in the order get_effective_model_filenames lists them
\* under Python 3.
Slot3 == "sentiment.marshal.3"
SlotLegacy == "sentiment.marshal"
Slots == {Slot3, SlotLegacy}

\* The content each slot ships with.
Original(s) == IF s = Slot3 THEN Whole("O3") ELSE Whole("O2")

\* gzip.decompress (l.56-59): XZ and JUNKZ are the gzip files of X and of JUNK;
\* on any other content decompress raises and the bytes are kept as read.
Gunzip(a) ==
    IF a = "XZ" THEN "X" ELSE IF a = "JUNKZ" THEN "JUNK" ELSE a

\* What marshal.loads yields for the bytes of a complete artifact: the
\* shipped models and the trained artifacts X and Y are dicts with 'total'
\* and a dict 'd'; BAD is a dict whose 'd' is no dict, NOD and NOTOTAL are
\* dicts that lack a key, LIST and INT are a marshalled list and a marshalled
\* integer, and on anything else
\* (JUNK, bytes still compressed) marshal.loads raises.
Unmarshal(a) ==
    LET dict == [loads |-> TRUE, isdict |-> TRUE, has_total |-> TRUE,
                 has_d |-> TRUE, d_isdict |-> TRUE]
    IN  IF a \in {"O3", "O2", "X", "Y"} THEN dict
        ELSE IF a = "BAD" THEN [dict EXCEPT !.d_isdict = FALSE]
        ELSE IF a = "NOD" THEN [dict EXCEPT !.has_d = FALSE, !.d_isdict = FALSE]
        ELSE IF a = "NOTOTAL" THEN [dict EXCEPT !.has_total = FALSE]
        ELSE IF a \in {"LIST", "INT"} THEN [loads |-> TRUE, isdict |-> FALSE, has_total |-> FALSE,
                                 has_d |-> FALSE, d_isdict |-> FALSE]
        ELSE [loads |-> FALSE, isdict |-> FALSE, has_total |-> FALSE,
              has_d |-> FALSE, d_isdict |-> FALSE]

\* A loader that forgets to look at the type of data['d'].
LoadWithoutNestedCheck(f) ==
    LET u == Unmarshal(Gunzip(f.art))
    IN  IF ~Exists(f) THEN "No such file"
        ELSE IF f.n < ChunkCount THEN "EOF read where object expected"
        ELSE IF ~u.loads THEN "bad marshal data"
        ELSE IF ~u.isdict THEN "marshal data is not a dict"
        ELSE IF ~(u.has_total /\ u.has_d) THEN "marshal dict missing required keys"
        ELSE ""

\* _load_marshal_data: the exception it raises on file f, "" when it returns.
LoadMarshalError(f) ==
    LET u == Unmarshal(Gunzip(f.art))
    IN  IF ~Exists(f) THEN "No such file"
        ELSE IF f.n < ChunkCount THEN "EOF read where object expected"
        ELSE IF ~u.loads THEN "bad marshal data"
        ELSE IF ~u.isdict THEN "marshal data is not a dict"
        ELSE IF ~(u.has_total /\ u.has_d) THEN "marshal dict missing required keys"
        ELSE IF ~u.d_isdict THEN "marshal dict['d'] is not a dict"
        ELSE ""

\* A validation that accepts every file.
ValidateAcceptsAll(f) == ""

\* validate_marshal_model_file: "" stands for None.
validate_marshal_model_file(f) == LoadMarshalError(f)

get_effective_model_filenames(replace_legacy_py2_file) ==
    IF replace_legacy_py2_file THEN <<Slot3, SlotLegacy>> ELSE <<Slot3>>

\* The loop order of restore_from_backup.
RestoreOrder == <<Slot3, SlotLegacy>>

\* The loop order of the GUI (train_and_replace_model, temp_replace_model,
\* backup_current_model).
GuiOrder == <<SlotLegacy, Slot3>>

\* ------------------------------------------------------------------ state
Workers == {"w1", "w2"}

\* The worker thread the sequential specification runs operations on.
MainWorker == "w1"

VARIABLES
    slot,        \* live slot files: slot name -> file
    bak,         \* <slot>.backup_gui
    tmpnew,      \* <slot>.tmp_new
    tmpbak,      \* <slot>.temp_backup
    th,          \* per worker: the running call, its locals and its position
    firstPre,    \* per slot: its content before the first deploy aimed at it
    firstSeen,   \* per slot: its content before the first deploy that found it
    calls,       \* calls started so far, where a specification counts them
    training_running,
    models,      \* ModelManager.models
    persisted,   \* the content of model_history.json
    disk,        \* the model files that exist on disk
    clock,       \* int(time.time())
    listed,      \* the result of get_model_list, fresh until the next change
    checked,     \* the file validate_marshal_model_file last ran on, and its result
    ranking,     \* the results a comparison collected, and its ranked list
    ret,         \* what the catalog's last add_model or delete_model returned
    cat,         \* the thread inside get_model_list, and the adds completed
    found        \* the output files a training left, and the one taken as its result

fileVars == <<slot, bak, tmpnew, tmpbak>>
ghostVars == <<firstPre, firstSeen>>
catalogVars == <<models, persisted, disk, clock, listed>>
auxVars == <<checked, ranking, ret, cat, found>>
vars == <<slot, bak, tmpnew, tmpbak, th, firstPre, firstSeen, calls,
          training_running, models, persisted, disk, clock, listed,
          checked, ranking, ret, cat, found>>

Unset == [art |-> "?", n |-> 0]

\* No listing has been made since the catalog or the disk last changed.
NotListed == [fresh |-> FALSE, entries |-> <<>>, pruned |-> {}]

\* The None that delete_model returns for an unknown id; paths start at 1.
NoPath == 0

\* No file has been validated yet.
NotChecked == [file |-> NoFile, err |-> "", done |-> FALSE]

\* No comparison has ranked anything yet.
NotRanked == [results |-> <<>>, ranked |-> <<>>, best |-> 0, done |-> FALSE]

\* The catalog's last operation returned nothing that is kept.
NoRet == [op |-> "none", id |-> 0, path |-> 0]

\* The UI thread is outside get_model_list.
NotListing == [pc |-> "idle", valid |-> <<>>, dropped |-> {}, added |-> <<>>]

\* No training has looked for its output yet.
NotSearched == [files |-> <<>>, by |-> "", pick |-> "", done |-> FALSE]

\* The stop button has not been pressed while the call scored samples.
NotStopped == 0 - 1

\* The locals of a call as it starts, with the files as it found them.
Fresh(op, source, targets) ==
    [op |-> op, pc |-> "idle", src |-> source, targets |-> targets, i |-> 1,
     replaced |-> <<>>, k |-> 0, j |-> 1, rrep |-> <<>>, err |-> "",
     success |-> FALSE, bk |-> <<>>, cands |-> <<>>, ci |-> 1, raised |-> FALSE, copy |-> 0,
     stopAt |-> NotStopped, log |-> "", total |-> 0,
     pre |-> slot, preBak |-> bak, preTmp |-> tmpnew, preTmpBak |-> tmpbak]

NoCall ==
    [op |-> "none", pc |-> "idle", src |-> NoFile, targets |-> <<>>, i |-> 1,
     replaced |-> <<>>, k |-> 0, j |-> 1, rrep |-> <<>>, err |-> "",
     success |-> FALSE, bk |-> <<>>, cands |-> <<>>, ci |-> 1, raised |-> FALSE, copy |-> 0,
     stopAt |-> NotStopped, log |-> "", total |-> 0,
     pre |-> [s \in Slots |-> NoFile], preBak |-> [s \in Slots |-> NoFile],
     preTmp |-> [s \in Slots |-> NoFile], preTmpBak |-> [s \in Slots |-> NoFile]]

Range(q) == {q[x] : x \in 1..Len(q)}

\* The artifacts a caller may hand in: two trained models, a file that fails
\* structural validation, and a path that does not exist.
Sources == {Whole("X"), Whole("Y"), Whole("BAD"), NoFile}

\* A deploy begins: the ghost records of the slots it is aimed at.
NoteDeploy(targets) ==
    /\ firstPre' = [s \in Slots |->
          IF s \in Range(targets) /\ firstPre[s] = Unset THEN slot[s] ELSE firstPre[s]]
    /\ firstSeen' = [s \in Slots |->
          IF s \in Range(targets) /\ firstSeen[s] = Unset /\ Exists(slot[s])
          THEN slot[s] ELSE firstSeen[s]]

\* The slots start as shipped or missing; nothing else exists yet.
Init ==
    /\ slot \in [Slots -> {NoFile} \cup {Original(s) : s \in Slots}]
    /\ \A s \in Slots : slot[s] \in {NoFile, Original(s)}
    /\ bak = [s \in Slots |-> NoFile]
    /\ tmpnew = [s \in Slots |-> NoFile]
    /\ tmpbak = [s \in Slots |-> NoFile]
    /\ th = [w \in Workers |-> NoCall]
    /\ firstPre = [s \in Slots |-> Unset]
    /\ firstSeen = [s \in Slots |-> Unset]
    /\ calls = 0
    /\ training_running = FALSE
    /\ models = <<>>
    /\ persisted = <<>>
    /\ disk = {}
    /\ clock = 1
    /\ listed = NotListed
    /\ checked = NotChecked
    /\ ranking = NotRanked
    /\ ret = NoRet
    /\ cat = NotListing
    /\ found = NotSearched

\* ------------------------------------------- restore_from_backup (l.79-109)
\* One pass of the loop: the next name of RestoreOrder.  A backup that exists
\* is copied over its slot with shutil.copy2, which opens the slot for
\* writing (truncating it) and then writes chunk by chunk.
RestoreCheck(w) ==
    LET t == th[w]
        f == RestoreOrder[t.j]
    IN  /\ t.pc = "rb_check"
        /\ t.j <= Len(RestoreOrder)
        /\ IF Exists(bak[f])
           THEN IF bak[f].n = 0
                THEN /\ slot' = [slot EXCEPT ![f] = Empty]
                     /\ th' = [th EXCEPT ![w].j = t.j + 1,
                                         ![w].rrep = Append(t.rrep, f)]
                ELSE /\ slot' = [slot EXCEPT ![f] = Empty]
                     /\ th' = [th EXCEPT ![w].pc = "rb_write", ![w].k = 0]
           ELSE /\ slot' = slot
                /\ th' = [th EXCEPT ![w].j = t.j + 1]
        /\ UNCHANGED <<bak, tmpnew, tmpbak, ghostVars, calls, training_running, catalogVars, auxVars>>

RestoreWrite(w) ==
    LET t == th[w]
        f == RestoreOrder[t.j]
    IN  /\ t.pc = "rb_write"
        /\ slot' = [slot EXCEPT ![f] = Prefix(bak[f].art, t.k + 1)]
        /\ IF t.k + 1 >= bak[f].n
           THEN th' = [th EXCEPT ![w].pc = "rb_check", ![w].k = 0,
                                 ![w].j = t.j + 1, ![w].rrep = Append(t.rrep, f)]
           ELSE th' = [th EXCEPT ![w].k = t.k + 1]
        /\ UNCHANGED <<bak, tmpnew, tmpbak, ghostVars, calls, training_running, catalogVars, auxVars>>

\* The loop is over.  Called by hand it reports what it restored; called as
\* the rollback of safe_replace_snownlp_model its result is dropped, the
\* logger is told model_replace_rollback_ok, and the deploy returns its own
\* failure, replaced_files as they were (l.326-337).
RestoreReturn(w) ==
    LET t == th[w]
    IN  /\ t.pc = "rb_check"
        /\ t.j > Len(RestoreOrder)
        /\ IF t.op = "restore"
           THEN th' = [th EXCEPT ![w].pc = "idle",
                                 ![w].success = (t.rrep # <<>>),
                                 ![w].replaced = t.rrep,
                                 ![w].err = IF t.rrep = <<>>
                                            THEN "no .backup_gui files found" ELSE ""]
           ELSE th' = [th EXCEPT ![w].pc = "idle", ![w].success = FALSE,
                                 ![w].log = "model_replace_rollback_ok"]
        /\ UNCHANGED <<fileVars, ghostVars, calls, training_running, catalogVars, auxVars>>

\* restore_from_backup called by hand.
RestoreBegin(w) ==
    /\ th[w].pc = "idle"
    /\ th' = [th EXCEPT ![w] = [Fresh("restore", NoFile, RestoreOrder)
                                   EXCEPT !.pc = "rb_check"]]
    /\ UNCHANGED <<fileVars, ghostVars, training_running, catalogVars, auxVars>>

\* ------------------------------- safe_replace_snownlp_model (l.225-337)
\* The checks before anything is touched (l.242-259).
ReplaceBegin(w, source, legacy) ==
    LET targets == get_effective_model_filenames(legacy)
        call == Fresh("replace", source, targets)
    IN  /\ th[w].pc = "idle"
        /\ IF ~Exists(source)
           THEN /\ th' = [th EXCEPT ![w] =
                            [call EXCEPT !.err = "source model file not found"]]
                /\ UNCHANGED <<firstPre, firstSeen>>
           ELSE IF validate_marshal_model_file(source) # ""
           THEN /\ th' = [th EXCEPT ![w] =
                            [call EXCEPT !.err = "invalid source model file"]]
                /\ UNCHANGED <<firstPre, firstSeen>>
           ELSE /\ th' = [th EXCEPT ![w] = [call EXCEPT !.pc = "r_backup"]]
                /\ NoteDeploy(targets)
        /\ UNCHANGED <<fileVars, training_running, catalogVars, auxVars>>

\* A backup condition that forgets to look for an existing backup.
NeedsBackupAlways(s) == Exists(slot[s])

\* The permanent backup is taken once: only when the target exists and no
\* backup does (l.275-276).
NeedsBackup(s) == Exists(slot[s]) /\ ~Exists(bak[s])

ReplaceBackup(w) ==
    LET t == th[w]
        s == t.targets[t.i]
    IN  /\ t.pc = "r_backup"
        /\ bak' = IF NeedsBackup(s) THEN [bak EXCEPT ![s] = slot[s]] ELSE bak
        /\ th' = [th EXCEPT ![w].pc = "r_copy"]
        /\ UNCHANGED <<slot, tmpnew, tmpbak, ghostVars, calls, training_running, catalogVars, auxVars>>

\* shutil.copy2(source, tmp) (l.285-286): it completes, or it raises part way
\* and leaves what it wrote, or it returns having written a short file.
ReplaceCopy(w) ==
    LET t == th[w]
        s == t.targets[t.i]
    IN  /\ t.pc = "r_copy"
        /\ \/ /\ tmpnew' = [tmpnew EXCEPT ![s] = t.src]
              /\ th' = [th EXCEPT ![w].pc = "r_validate"]
           \/ \E k \in 0..(ChunkCount - 1) :
                 /\ tmpnew' = [tmpnew EXCEPT ![s] = Prefix(t.src.art, k)]
                 /\ th' = [th EXCEPT ![w].pc = "r_validate"]
           \/ \E k \in 0..(ChunkCount - 1) :
                 /\ tmpnew' = [tmpnew EXCEPT ![s] = Prefix(t.src.art, k)]
                 /\ th' = [th EXCEPT ![w].pc = "rb_check", ![w].j = 1,
                                     ![w].err = "copy failed"]
        /\ UNCHANGED <<slot, bak, tmpbak, ghostVars, calls, training_running, catalogVars, auxVars>>

\* A deploy that renames the staged file without validating it.
ReplaceSkipValidate(w) ==
    /\ th[w].pc = "r_validate"
    /\ th' = [th EXCEPT ![w].pc = "r_rename"]
    /\ UNCHANGED <<fileVars, ghostVars, calls, training_running, catalogVars, auxVars>>

\* The staged file is validated again; a bad one is removed and the deploy
\* raises (l.288-294).
ReplaceValidate(w) ==
    LET t == th[w]
        s == t.targets[t.i]
    IN  /\ t.pc = "r_validate"
        /\ IF validate_marshal_model_file(tmpnew[s]) # ""
           THEN /\ tmpnew' = [tmpnew EXCEPT ![s] = NoFile]
                /\ th' = [th EXCEPT ![w].pc = "rb_check", ![w].j = 1,
                                    ![w].err = "new model validation failed"]
           ELSE /\ tmpnew' = tmpnew
                /\ th' = [th EXCEPT ![w].pc = "r_rename"]
        /\ UNCHANGED <<slot, bak, tmpbak, ghostVars, calls, training_running, catalogVars, auxVars>>

\* A deploy that returns success as soon as one target is renamed.
ReplaceRenameFirstOnly(w) ==
    LET t == th[w]
        s == t.targets[t.i]
        done == Append(t.replaced, s)
    IN  /\ t.pc = "r_rename"
        /\ \/ /\ slot' = [slot EXCEPT ![s] = tmpnew[s]]
              /\ tmpnew' = [tmpnew EXCEPT ![s] = NoFile]
              /\ th' = [th EXCEPT ![w].pc = "idle", ![w].replaced = done,
                                  ![w].success = (Len(done) > 0)]
           \/ /\ UNCHANGED <<slot, tmpnew>>
              /\ th' = [th EXCEPT ![w].pc = "rb_check", ![w].j = 1,
                                  ![w].err = "replace failed"]
        /\ UNCHANGED <<bak, tmpbak, ghostVars, calls, training_running, catalogVars, auxVars>>

\* os.replace(tmp, target) and replaced.append (l.296-297); after the last
\* target the call returns success (l.308-313).  os.replace may raise.
ReplaceRename(w) ==
    LET t == th[w]
        s == t.targets[t.i]
        done == Append(t.replaced, s)
    IN  /\ t.pc = "r_rename"
        /\ \/ /\ slot' = [slot EXCEPT ![s] = tmpnew[s]]
              /\ tmpnew' = [tmpnew EXCEPT ![s] = NoFile]
              /\ IF t.i < Len(t.targets)
                 THEN th' = [th EXCEPT ![w].pc = "r_backup", ![w].i = t.i + 1,
                                       ![w].replaced = done]
                 ELSE th' = [th EXCEPT ![w].pc = "idle", ![w].replaced = done,
                                       ![w].success = (Len(done) > 0)]
           \/ /\ UNCHANGED <<slot, tmpnew>>
              /\ th' = [th EXCEPT ![w].pc = "rb_check", ![w].j = 1,
                                  ![w].err = "replace failed"]
        /\ UNCHANGED <<bak, tmpbak, ghostVars, calls, training_running, catalogVars, auxVars>>

\* ------------------------------------------------ ModelManager (l.56-125)
\* A catalog entry; the fields the operations read or write.
Entry(path, name) == [path |-> path, name |-> name, test_accuracy |-> 0]

\* self.models[model_id] = {...}
Put(m, id, e) == [x \in (DOMAIN m) \cup {id} |-> IF x = id THEN e ELSE m[x]]

\* Keep only the ids of keep.
Restrict(m, keep) == [x \in keep |-> m[x]]

\* add_model without info['id']: the id is str(int(time.time())) (l.82), the
\* entry is stored under it and the whole map is saved (l.95).
add_model(path, name) ==
    /\ models' = Put(models, clock, Entry(path, name))
    /\ persisted' = models'
    /\ listed' = NotListed

\* The model files a catalog entry may name: model_<timestamp>.marshal.3 of
\* the first two seconds.
Paths == {1, 2}

\* The accuracy a test stores in an entry.
Accuracies == {90}

\* What is left alone by the catalog's operations.
guiVars == <<fileVars, th, ghostVars, calls, training_running>>

\* A listing that keeps every entry.
all_models == models

\* get_model_list, the filter (l.100-103): the entries whose file exists.
valid_models == Restrict(models, {id \in DOMAIN models : models[id].path \in disk})

\* get_model_list (l.98-110): when the filter dropped an entry the kept ones
\* replace self.models and are saved; the kept ones are returned.
get_model_list ==
    /\ listed' = [fresh |-> TRUE, entries |-> valid_models,
                  pruned |-> (DOMAIN models) \ (DOMAIN valid_models)]
    /\ IF Cardinality(DOMAIN valid_models) # Cardinality(DOMAIN models)
       THEN /\ models' = valid_models
            /\ persisted' = models'
       ELSE UNCHANGED <<models, persisted>>
    /\ UNCHANGED <<disk, clock, guiVars, checked, ranking, cat, found>>
    /\ ret' = NoRet

\* A model is registered from the GUI thread, its file present or not; the
\* id the entry went under is returned (l.96).
AddModel(path) ==
    /\ add_model(path, path)
    /\ UNCHANGED <<disk, clock, guiVars, checked, ranking, cat, found>>
    /\ ret' = [op |-> "add", id |-> clock, path |-> path]

\* update_model (l.112-116) with updates = {'test_accuracy': acc}.
update_model(model_id, acc) ==
    /\ IF model_id \in DOMAIN models
       THEN /\ models' = [models EXCEPT ![model_id].test_accuracy = acc]
            /\ persisted' = models'
       ELSE UNCHANGED <<models, persisted>>
    /\ listed' = NotListed
    /\ UNCHANGED <<disk, clock, guiVars, checked, ranking, cat, found>>
    /\ ret' = NoRet

\* A delete that drops the entry from memory and forgets to save.
delete_without_save(model_id) ==
    /\ models' = Restrict(models, (DOMAIN models) \ {model_id})
    /\ persisted' = persisted
    /\ listed' = NotListed
    /\ UNCHANGED <<disk, clock, guiVars, checked, ranking, cat, found>>
    /\ ret' = [op |-> "delete", id |-> model_id,
               path |-> IF model_id \in DOMAIN models THEN models[model_id].path
                        ELSE NoPath]

\* delete_model (l.118-125): a known id is dropped, the map is saved and the
\* entry's path returned; an unknown id returns None.
delete_model(model_id) ==
    /\ IF model_id \in DOMAIN models
       THEN /\ models' = Restrict(models, (DOMAIN models) \ {model_id})
            /\ persisted' = models'
       ELSE UNCHANGED <<models, persisted>>
    /\ listed' = NotListed
    /\ UNCHANGED <<disk, clock, guiVars, checked, ranking, cat, found>>
    /\ ret' = [op |-> "delete", id |-> model_id,
               path |-> IF model_id \in DOMAIN models THEN models[model_id].path
                        ELSE NoPath]

\* ----------------------- the catalog shared by threads (no lock, l.56-125)
\* get_model_list on one thread, first half (l.100-103): the loop has built
\* valid_models from the entries whose file exists.
ListFilter ==
    /\ cat.pc = "idle"
    /\ cat' = [cat EXCEPT !.pc = "filtered", !.valid = valid_models,
                          !.dropped = (DOMAIN models) \ (DOMAIN valid_models)]
    /\ ret' = NoRet
    /\ UNCHANGED <<models, persisted, listed, disk, clock, guiVars, checked, ranking, found>>

\* The dict the loop built holds the entry objects themselves: an entry that
\* is still in self.models is the same object there.
BuiltModels ==
    [id \in DOMAIN cat.valid |->
        IF id \in DOMAIN models THEN models[id] ELSE cat.valid[id]]

\* Second half (l.105-110): len(valid_models) is compared with the length
\* self.models has now; when they differ valid_models replaces self.models
\* and is saved.
ListCommit ==
    /\ cat.pc = "filtered"
    /\ IF Cardinality(DOMAIN cat.valid) # Cardinality(DOMAIN models)
       THEN /\ models' = BuiltModels
            /\ persisted' = models'
       ELSE UNCHANGED <<models, persisted>>
    /\ listed' = [fresh |-> TRUE, entries |-> BuiltModels, pruned |-> cat.dropped]
    /\ cat' = [pc |-> "idle", valid |-> <<>>, dropped |-> {},
               added |-> Restrict(cat.added, (DOMAIN cat.added) \ cat.dropped)]
    /\ ret' = NoRet
    /\ UNCHANGED <<disk, clock, guiVars, checked, ranking, found>>

\* add_model on the training thread (l.1665), after the model copy was
\* written: the add is complete when it returns.
WorkerAdd(path) ==
    /\ path \in disk
    /\ add_model(path, path)
    /\ cat' = [cat EXCEPT !.added = Put(cat.added, clock, path)]
    /\ ret' = NoRet
    /\ UNCHANGED <<disk, clock, guiVars, checked, ranking, found>>

\* A model file is written to disk, or removed from it behind the catalog's
\* back.
CreateFile(path) ==
    /\ path \notin disk
    /\ disk' = disk \cup {path}
    /\ listed' = NotListed
    /\ UNCHANGED <<models, persisted, clock, guiVars, checked, ranking, cat, found>>
    /\ ret' = NoRet

UnlinkFile(path) ==
    /\ path \in disk
    /\ disk' = disk \ {path}
    /\ listed' = NotListed
    /\ UNCHANGED <<models, persisted, clock, guiVars, checked, ranking, cat, found>>
    /\ ret' = NoRet

\* time.time() moves on by a second.
Tick ==
    /\ clock < MaxClock
    /\ clock' = clock + 1
    /\ UNCHANGED <<models, persisted, disk, listed, guiVars, checked, ranking, cat, found>>
    /\ ret' = NoRet

\* ------------------------- shutil.copy2 onto a live slot, step by step
\* open(dst, 'wb') truncates the slot.
CopyOpen(f) == [slot EXCEPT ![f] = Empty]

\* One more chunk of content c reaches the slot, k chunks being there.
CopyWrite(f, c, k) == [slot EXCEPT ![f] = Prefix(c.art, k + 1)]

\* The slots that exist, in the GUI's loop order.
ExistingTargets == SelectSeq(GuiOrder, LAMBDA s : Exists(slot[s]))

\* --------- train_and_replace_model, the deploy of a trained model (l.1620-1672)
\* The file found after training is any file that exists; it is not validated.
TrainedFiles == {Whole("X"), Whole("BAD")}

\* The model copy model_<timestamp>.marshal.3 is named after the clock (l.1608-1610).
ModelCopy == clock

\* Steps 4 to 6: the copy is made and the targets are the slots that exist;
\* with none the call returns False (l.1628-1630).
TrainBegin(w, source) ==
    LET call == [Fresh("train", source, ExistingTargets) EXCEPT !.copy = ModelCopy]
    IN  /\ th[w].pc = "idle"
        /\ ~training_running
        /\ disk' = disk \cup {ModelCopy}
        /\ IF ExistingTargets = <<>>
           THEN /\ th' = [th EXCEPT ![w] = call]
                /\ UNCHANGED <<firstPre, firstSeen, training_running>>
           ELSE /\ th' = [th EXCEPT ![w] = [call EXCEPT !.pc = "t_backup"]]
                /\ NoteDeploy(ExistingTargets)
                /\ training_running' = TRUE
        /\ UNCHANGED <<fileVars, models, persisted, clock, listed, auxVars>>

\* Step 7: every target without a .backup_gui gets one (l.1632-1639).
GuiBackup(targets) ==
    [s \in Slots |-> IF s \in Range(targets) /\ ~Exists(bak[s]) THEN slot[s] ELSE bak[s]]

TrainBackup(w) ==
    /\ th[w].pc = "t_backup"
    /\ bak' = GuiBackup(th[w].targets)
    /\ th' = [th EXCEPT ![w].pc = "t_open"]
    /\ UNCHANGED <<slot, tmpnew, tmpbak, ghostVars, calls, training_running, catalogVars, auxVars>>

\* Step 9 and the return: with success_count > 0 the model copy is added to
\* the catalog and the call returns True (l.1654-1672); the worker's finally
\* clears training_running (l.1338-1339).
TrainAfterTarget(w, t, done) ==
    IF t.i < Len(t.targets)
    THEN /\ th' = [th EXCEPT ![w].pc = "t_open", ![w].i = t.i + 1, ![w].k = 0,
                             ![w].replaced = done]
         /\ UNCHANGED <<training_running, models, persisted, listed>>
    ELSE /\ th' = [th EXCEPT ![w].pc = "idle", ![w].replaced = done, ![w].k = 0,
                             ![w].success = (Len(done) > 0)]
         /\ training_running' = FALSE
         /\ IF Len(done) > 0
            THEN add_model(t.copy, t.copy)
            ELSE UNCHANGED <<models, persisted, listed>>

\* Step 8: shutil.copy2(source_file, target_file), each target in its own
\* try (l.1643-1652).  The open truncates the target, or raises and leaves it.
TrainOpen(w) ==
    LET t == th[w]
        s == t.targets[t.i]
    IN  /\ t.pc = "t_open"
        /\ \/ /\ slot' = CopyOpen(s)
              /\ th' = [th EXCEPT ![w].pc = "t_write", ![w].k = 0]
              /\ UNCHANGED <<training_running, models, persisted, listed>>
           \/ /\ slot' = slot
              /\ TrainAfterTarget(w, t, t.replaced)
        /\ UNCHANGED <<bak, tmpnew, tmpbak, ghostVars, calls, disk, clock, auxVars>>

\* A chunk is written, or the write raises and leaves the target short.
TrainWrite(w) ==
    LET t == th[w]
        s == t.targets[t.i]
    IN  /\ t.pc = "t_write"
        /\ \/ /\ slot' = CopyWrite(s, t.src, t.k)
              /\ IF t.k + 1 >= t.src.n
                 THEN TrainAfterTarget(w, t, Append(t.replaced, s))
                 ELSE /\ th' = [th EXCEPT ![w].k = t.k + 1]
                      /\ UNCHANGED <<training_running, models, persisted, listed>>
           \/ /\ slot' = slot
              /\ TrainAfterTarget(w, t, t.replaced)
        /\ UNCHANGED <<bak, tmpnew, tmpbak, ghostVars, calls, disk, clock, auxVars>>

\* ------------------------------------------- evaluation sessions of the GUI
\* test:     test_model_worker (l.2780-2811): backup, try deploy and test,
\*           finally restore.
\* select:   select_model_test_worker (l.2081-2119): deploy and test.
\* mcompare: model_comparison_worker (l.2297-2397): backup, deploy and test
\*           each file, restore.
Candidates == {Whole("X"), Whole("Y"), Whole("BAD")}

CandidateLists(kind) ==
    IF kind = "mcompare"
    THEN {<<a, b>> : a \in Candidates, b \in Candidates}
    ELSE {<<a>> : a \in Candidates}

SessionKinds == {"test", "select", "mcompare"}

HasBackup(kind) == kind \in {"test", "mcompare", "compare"}

\* Whether the restore sits in a finally block.
RestoreInFinally(kind) == kind \in {"test", "compare"}

SessionBegin(w, kind, cands) ==
    /\ th[w].pc = "idle"
    /\ th' = [th EXCEPT ![w] =
                [Fresh(kind, cands[1], <<>>) EXCEPT
                    !.cands = cands,
                    !.pc = IF HasBackup(kind) THEN "s_backup" ELSE "s_deploy"]]
    /\ UNCHANGED <<fileVars, firstPre, firstSeen, training_running, catalogVars, auxVars>>

\* A session backup that writes the permanent backup files.
SessionBackupPermanent(w) ==
    /\ th[w].pc = "s_backup"
    /\ bak' = [s \in Slots |-> IF Exists(slot[s]) THEN slot[s] ELSE bak[s]]
    /\ th' = [th EXCEPT ![w].pc = "s_deploy", ![w].bk = ExistingTargets]
    /\ UNCHANGED <<slot, tmpbak, tmpnew, ghostVars, calls, training_running, catalogVars, auxVars>>

\* backup_current_model (l.2430-2448): every slot that exists is copied to
\* <slot>.temp_backup; the list of backups is returned.
SessionBackup(w) ==
    /\ th[w].pc = "s_backup"
    /\ tmpbak' = [s \in Slots |-> IF Exists(slot[s]) THEN slot[s] ELSE tmpbak[s]]
    /\ th' = [th EXCEPT ![w].pc = "s_deploy", ![w].bk = ExistingTargets]
    /\ UNCHANGED <<slot, bak, tmpnew, ghostVars, calls, training_running, catalogVars, auxVars>>

\* The session is over: the restore has run, or there is none to run.
SessionEnd(w, t) ==
    th' = [th EXCEPT ![w] = [t EXCEPT !.pc = "idle", !.k = 0]]

\* restore_model is called only with a non-empty list of backups
\* ("if original_model_backup:").
SessionToRestore(w, t) ==
    IF t.bk # <<>>
    THEN th' = [th EXCEPT ![w] = [t EXCEPT !.pc = "s_rcheck", !.j = 1, !.k = 0]]
    ELSE SessionEnd(w, t)

\* What follows the deploy and test of one candidate, raised telling whether
\* an exception left the test.
SessionAfterCandidate(w, t, raised) ==
    LET u == [t EXCEPT !.raised = raised]
    IN  IF raised
        THEN IF RestoreInFinally(t.op) THEN SessionToRestore(w, u) ELSE SessionEnd(w, u)
        ELSE IF t.ci < Len(t.cands)
        THEN th' = [th EXCEPT ![w] = [u EXCEPT !.pc = "s_deploy", !.ci = t.ci + 1,
                                               !.src = t.cands[t.ci + 1], !.k = 0]]
        ELSE IF HasBackup(t.op) THEN SessionToRestore(w, u) ELSE SessionEnd(w, u)

\* temp_replace_model (l.2399-2428): a missing file or no target returns False.
SessionDeploy(w) ==
    LET t == th[w]
    IN  /\ t.pc = "s_deploy"
        /\ IF ~Exists(t.src) \/ ExistingTargets = <<>>
           THEN SessionAfterCandidate(w, t, FALSE)
           ELSE th' = [th EXCEPT ![w].pc = "s_open", ![w].targets = ExistingTargets,
                                 ![w].i = 1]
        /\ UNCHANGED <<fileVars, ghostVars, calls, training_running, catalogVars, auxVars>>

\* shutil.copy2(model_file, target_file) (l.2421-2422): the open truncates the
\* target, or raises; the except returns False.
SessionOpen(w) ==
    LET t == th[w]
        s == t.targets[t.i]
    IN  /\ t.pc = "s_open"
        /\ \/ /\ slot' = CopyOpen(s)
              /\ th' = [th EXCEPT ![w].pc = "s_write", ![w].k = 0]
           \/ /\ slot' = slot
              /\ SessionAfterCandidate(w, t, FALSE)
        /\ UNCHANGED <<bak, tmpnew, tmpbak, ghostVars, calls, training_running, catalogVars, auxVars>>

\* A chunk is written, or the write raises and temp_replace_model returns
\* False.  After the last target it returns True and the test runs.
SessionWrite(w) ==
    LET t == th[w]
        s == t.targets[t.i]
    IN  /\ t.pc = "s_write"
        /\ \/ /\ slot' = CopyWrite(s, t.src, t.k)
              /\ IF t.k + 1 < t.src.n
                 THEN th' = [th EXCEPT ![w].k = t.k + 1]
                 ELSE IF t.i < Len(t.targets)
                 THEN th' = [th EXCEPT ![w].pc = "s_open", ![w].i = t.i + 1, ![w].k = 0]
                 ELSE th' = [th EXCEPT ![w].pc = "s_bench", ![w].k = 0, ![w].total = 0]
           \/ /\ slot' = slot
              /\ SessionAfterCandidate(w, t, FALSE)
        /\ UNCHANGED <<bak, tmpnew, tmpbak, ghostVars, calls, training_running, catalogVars, auxVars>>

\* The test of the deployed candidate: it returns, or an exception leaves it.
\* The loop of compare_models_worker returns after its last sample.
SessionBench(w) ==
    /\ th[w].pc = "s_bench"
    /\ th[w].op = "compare" => th[w].k = MaxSamples
    /\ \E raised \in BOOLEAN : SessionAfterCandidate(w, th[w], raised)
    /\ UNCHANGED <<fileVars, ghostVars, calls, training_running, catalogVars, auxVars>>

\* compare:  compare_models_worker (l.2932-3040): backup, try deploy and
\*           score each model on the test data, finally restore.
CompareBegin(w, cands) == SessionBegin(w, "compare", cands)

\* One pass of its scoring loop (l.2966-2986), k samples being behind it: the
\* next sample is scored and total_processed goes up by one, or the scoring
\* raises and the bare except goes on to the next sample; nothing else is
\* looked at and nothing else is counted.  (Whether the prediction was right,
\* the count correct, is left out.)
CompareScore(w) ==
    /\ th[w].pc = "s_bench"
    /\ th[w].op = "compare"
    /\ th[w].k < MaxSamples
    /\ \/ th' = [th EXCEPT ![w].k = th[w].k + 1, ![w].total = th[w].total + 1]
       \/ th' = [th EXCEPT ![w].k = th[w].k + 1]
    /\ UNCHANGED <<fileVars, ghostVars, calls, training_running, catalogVars, auxVars>>

\* restore_model (l.2450-2464): each temp backup that exists is copied over
\* its slot with shutil.copy2 and then removed.
SessionRestoreCheck(w) ==
    LET t == th[w]
        s == t.bk[t.j]
    IN  /\ t.pc = "s_rcheck"
        /\ IF t.j > Len(t.bk)
           THEN /\ SessionEnd(w, t)
                /\ UNCHANGED <<slot, tmpbak>>
           ELSE IF ~Exists(tmpbak[s])
           THEN /\ th' = [th EXCEPT ![w].j = t.j + 1]
                /\ UNCHANGED <<slot, tmpbak>>
           ELSE IF tmpbak[s].n = 0
           THEN /\ slot' = CopyOpen(s)
                /\ tmpbak' = [tmpbak EXCEPT ![s] = NoFile]
                /\ th' = [th EXCEPT ![w].j = t.j + 1]
           ELSE /\ slot' = CopyOpen(s)
                /\ tmpbak' = tmpbak
                /\ th' = [th EXCEPT ![w].pc = "s_rwrite", ![w].k = 0]
        /\ UNCHANGED <<bak, tmpnew, ghostVars, calls, training_running, catalogVars, auxVars>>

SessionRestoreWrite(w) ==
    LET t == th[w]
        s == t.bk[t.j]
    IN  /\ t.pc = "s_rwrite"
        /\ slot' = CopyWrite(s, tmpbak[s], t.k)
        /\ IF t.k + 1 < tmpbak[s].n
           THEN /\ th' = [th EXCEPT ![w].k = t.k + 1]
                /\ tmpbak' = tmpbak
           ELSE /\ th' = [th EXCEPT ![w].pc = "s_rcheck", ![w].j = t.j + 1, ![w].k = 0]
                /\ tmpbak' = [tmpbak EXCEPT ![s] = NoFile]
        /\ UNCHANGED <<bak, tmpnew, ghostVars, calls, training_running, catalogVars, auxVars>>

\* ------------------------------------------------ validation, on its own
\* The contents a file handed to the validation may have.
Contents ==
    {"O3", "O2", "X", "Y", "XZ", "BAD", "NOD", "NOTOTAL", "LIST", "INT", "JUNK", "JUNKZ"}

\* The files handed to it: a missing path, an empty file, and every content
\* whole or cut short.
Files == {NoFile, Empty} \cup {[art |-> a, n |-> k] : a \in Contents, k \in 1 .. ChunkCount}

\* validate_marshal_model_file(path) is called: every exception of the load
\* is caught and returned as text (l.72-76).
Validate(f) ==
    /\ checked' = [file |-> f, err |-> validate_marshal_model_file(f), done |-> TRUE]
    /\ UNCHANGED <<fileVars, th, ghostVars, calls, training_running, catalogVars,
                   ranking, ret, cat, found>>

\* --------------------------------- the search for the training's output
\* The file names the GUI looks for, in its order (l.1582-1587).
possible_model_files ==
    <<"custom_sentiment.marshal.3", "sentiment.marshal", "sentiment.marshal.3",
      "custom_sentiment.model">>

\* No file of that name in the working directory.
NoOutput == [valid |-> FALSE, size |-> 0]

\* The files a training may leave under those names: none, or a file of some
\* size that passes structural validation or does not.
OutputFiles ==
    [Range(possible_model_files) ->
        {NoOutput} \cup [valid : BOOLEAN, size : 1 .. MaxSize]]

\* The names, in list order, whose file exists.
ExistingOutputs(files) ==
    SelectSeq(possible_model_files, LAMBDA n : files[n] # NoOutput)

\* train_and_replace_model, step 2 (l.1589-1598): the first name of the list
\* that exists is the source file; "" stands for None.
source_file(files) ==
    IF ExistingOutputs(files) = <<>> THEN "" ELSE ExistingOutputs(files)[1]

\* train_model of the command line tool (l.254-266): the globs *.marshal* and
\* custom_sentiment.* match the four names; max(model_files, key=getsize)
\* yields a largest file, the first of them in the order glob listed them,
\* which is any of them.
largest_files(files) ==
    {n \in Range(ExistingOutputs(files)) :
        \A m \in Range(ExistingOutputs(files)) : files[m].size <= files[n].size}

\* The GUI's training looks for its output, once.
FindSourceFile(files) ==
    /\ ~found.done
    /\ found' = [files |-> files, by |-> "gui", pick |-> source_file(files), done |-> TRUE]
    /\ UNCHANGED <<fileVars, th, ghostVars, calls, training_running, catalogVars,
                   checked, ranking, ret, cat>>

\* The command line tool's training looks for its output, once.
FindLargestFile(files) ==
    /\ ~found.done
    /\ \/ /\ largest_files(files) = {}
          /\ found' = [files |-> files, by |-> "cli", pick |-> "", done |-> TRUE]
       \/ \E n \in largest_files(files) :
             found' = [files |-> files, by |-> "cli", pick |-> n, done |-> TRUE]
    /\ UNCHANGED <<fileVars, th, ghostVars, calls, training_running, catalogVars,
                   checked, ranking, ret, cat>>

\* ------------------------------------------- the ranking of a comparison
\* results.sort(key=lambda x: x['accuracy'], reverse=True) (l.3015, l.2388).
\* list.sort is stable; with reverse=True it reverses the list, sorts it
\* ascending and reverses it again, which keeps equal keys in input order.
Reverse(q) == [x \in 1 .. Len(q) |-> q[Len(q) + 1 - x]]

\* e is put behind every element whose accuracy is not above its own.
InsertAscending(q, e) ==
    LET before == SelectSeq(q, LAMBDA x : x.accuracy <= e.accuracy)
        after == SelectSeq(q, LAMBDA x : x.accuracy > e.accuracy)
    IN  before \o <<e>> \o after

RECURSIVE SortAscending(_)
SortAscending(q) ==
    IF q = <<>> THEN <<>>
    ELSE InsertAscending(SortAscending(SubSeq(q, 1, Len(q) - 1)), q[Len(q)])

\* A descending sort that sorts ascending and turns the list round.
SortThenReverse(q) == Reverse(SortAscending(q))

SortByAccuracyReversed(q) == Reverse(SortAscending(Reverse(q)))

\* The models of a comparison and the accuracies, in percent, their tests give.
ModelIds == 1 .. MaxModels

Scores == {60, 80}

\* The results a comparison collects: one entry per model that loaded, no
\* model twice, in the order the models were given.
ResultLists ==
    {q \in UNION {[1 .. len -> [id : ModelIds, accuracy : Scores]] : len \in 0 .. MaxModels} :
        \A x, y \in 1 .. Len(q) : q[x].id = q[y].id => x = y}

\* The summary of compare_models_worker (l.3014-3038) and of
\* model_comparison_worker (l.2386-2397): the results are sorted and the
\* first of them is recommended.  A comparison sums up once.
RankResults(results) ==
    LET ranked == SortByAccuracyReversed(results)
    IN  /\ ~ranking.done
        /\ ranking' = [results |-> results, ranked |-> ranked,
                       best |-> IF ranked # <<>> THEN ranked[1].id ELSE 0,
                       done |-> TRUE]
        /\ UNCHANGED <<fileVars, th, ghostVars, calls, training_running, catalogVars,
                       checked, ret, cat, found>>

\* stop_training: the button clears the flag whatever the worker is doing
\* (l.1130-1135).  A comparison that is scoring notes how many samples it had
\* scored when the button was pressed.
stop_training ==
    /\ training_running
    /\ training_running' = FALSE
    /\ th' = [w \in Workers |->
                IF th[w].op = "compare" /\ th[w].pc = "s_bench" /\ th[w].stopAt = NotStopped
                THEN [th[w] EXCEPT !.stopAt = th[w].k]
                ELSE th[w]]
    /\ UNCHANGED <<fileVars, ghostVars, calls, catalogVars, auxVars>>

\* ------------------------------------------------------------ specification
\* A call starts and is counted against MaxCalls.
Counted(Begin) ==
    /\ calls < MaxCalls
    /\ calls' = calls + 1
    /\ Begin

\* A call starts in a specification that does not bound the calls.
Uncounted(Begin) ==
    /\ calls' = calls
    /\ Begin

\* The calls of snownlp_model_utils: deploys and restores.
SwapBegin(w) ==
    \/ \E source \in Sources, legacy \in BOOLEAN : ReplaceBegin(w, source, legacy)
    \/ RestoreBegin(w)

SwapRun(w) ==
    \/ ReplaceBackup(w)
    \/ ReplaceCopy(w)
    \/ ReplaceValidate(w)
    \/ ReplaceRename(w)
    \/ RestoreCheck(w)
    \/ RestoreWrite(w)
    \/ RestoreReturn(w)

\* The GUI's deploy of a trained model.
TrainStart(w) == \E source \in TrainedFiles : TrainBegin(w, source)

TrainRun(w) ==
    \/ TrainBackup(w)
    \/ TrainOpen(w)
    \/ TrainWrite(w)

\* The GUI's evaluation sessions.
SessionStart(w) ==
    \E kind \in SessionKinds : \E cands \in CandidateLists(kind) :
        SessionBegin(w, kind, cands)

SessionRun(w) ==
    \/ SessionBackup(w)
    \/ SessionDeploy(w)
    \/ SessionOpen(w)
    \/ SessionWrite(w)
    \/ SessionBench(w)
    \/ SessionRestoreCheck(w)
    \/ SessionRestoreWrite(w)

\* One worker, one call at a time: the library's deploys and restores in any
\* order and number.
Next ==
    \/ Uncounted(SwapBegin(MainWorker))
    \/ SwapRun(MainWorker)

Spec == Init /\ [][Next]_vars

\* One worker: every permanent deploy, the library's and the GUI's, and the
\* restores, in any order.
NextDeploy ==
    \/ Counted(SwapBegin(MainWorker))
    \/ Counted(TrainStart(MainWorker))
    \/ SwapRun(MainWorker)
    \/ TrainRun(MainWorker)

SpecDeploy == Init /\ [][NextDeploy]_vars

\* One worker: the GUI's deploys and evaluation sessions in any order.
NextGui ==
    \/ Counted(TrainStart(MainWorker))
    \/ Counted(SessionStart(MainWorker))
    \/ TrainRun(MainWorker)
    \/ SessionRun(MainWorker)

SpecGui == Init /\ [][NextGui]_vars

\* Two worker threads: the GUI starts a thread for every deploy and session
\* its buttons ask for, and the stop button may be pressed at any time. The
\* artifacts are fixed: X is the trained model, Y the model under test.
ConcTrainStart(w) == TrainBegin(w, Whole("X"))

ConcSessionStart(w) ==
    \E kind \in SessionKinds \ {"mcompare"} : SessionBegin(w, kind, <<Whole("Y")>>)

NextConc ==
    \/ \E w \in Workers : Counted(ConcTrainStart(w))
    \/ \E w \in Workers : Counted(ConcSessionStart(w))
    \/ \E w \in Workers : TrainRun(w)
    \/ \E w \in Workers : SessionRun(w)
    \/ stop_training

SpecConc == Init /\ [][NextConc]_vars

\* The catalog: registrations, listings, updates and deletions while model
\* files come and go and the clock advances.
NextCatalog ==
    \/ \E path \in Paths : AddModel(path)
    \/ get_model_list
    \/ \E model_id \in 1 .. MaxClock, acc \in Accuracies : update_model(model_id, acc)
    \/ \E model_id \in 1 .. MaxClock : delete_model(model_id)
    \/ \E path \in Paths : CreateFile(path)
    \/ \E path \in Paths : UnlinkFile(path)
    \/ Tick

SpecCatalog == Init /\ [][NextCatalog]_vars

\* A training deploys on one thread while a comparison runs on another, and
\* the stop button, enabled while training_running is set, may be pressed.
EvalWorker == "w2"

NextCancel ==
    \/ Counted(ConcTrainStart(MainWorker))
    \/ Counted(CompareBegin(EvalWorker, <<Whole("Y")>>))
    \/ TrainRun(MainWorker)
    \/ SessionRun(EvalWorker)
    \/ CompareScore(EvalWorker)
    \/ stop_training

SpecCancel == Init /\ [][NextCancel]_vars

\* The catalog used by two threads: one lists while the other registers
\* models, files come and go and the clock advances.
NextCatalogConc ==
    \/ ListFilter
    \/ ListCommit
    \/ \E path \in Paths : WorkerAdd(path)
    \/ \E path \in Paths : CreateFile(path)
    \/ \E path \in Paths : UnlinkFile(path)
    \/ Tick

SpecCatalogConc == Init /\ [][NextCatalogConc]_vars

\* The validation applied to any file, again and again.
NextValidate == \E f \in Files : Validate(f)

SpecValidate == Init /\ [][NextValidate]_vars

\* The search for the output of a training, over any files it may have left.
NextFind ==
    \/ \E files \in OutputFiles : FindSourceFile(files)
    \/ \E files \in OutputFiles : FindLargestFile(files)

SpecFind == Init /\ [][NextFind]_vars

\* The summary of a comparison over any list of results.
NextRank == \E results \in ResultLists : RankResults(results)

SpecRank == Init /\ [][NextRank]_vars

\* ------------------------------------------------------------------ claims
\* Worker w is back from a call of operation op, whose result th[w] holds.
Returned(w, op) == th[w].pc = "idle" /\ th[w].op = op

\* The deploy failed on its second target after committing the first.
FailedOnSecond(w) ==
    /\ Returned(w, "replace")
    /\ Len(th[w].targets) = 2
    /\ th[w].i = 2
    /\ th[w].replaced = <<th[w].targets[1]>>
    /\ th[w].err # ""

\* C1: when safe_replace_snownlp_model has returned, every target slot holds
\* what it held before the call or the source artifact, and a failure of the
\* temp-file copy leaves the target it was staged for as it was.
C1_DeployLeavesPreOrSource ==
    \A w \in Workers :
        Returned(w, "replace") =>
            /\ \A s \in Range(th[w].targets) : slot[s] \in {th[w].pre[s], th[w].src}
            /\ th[w].err = "copy failed" =>
                  slot[th[w].targets[th[w].i]] = th[w].pre[th[w].targets[th[w].i]]

\* C2: at every observation point every slot is absent or holds a complete
\* file, never an empty or partly written one.
C2_SlotNeverPartial ==
    \A s \in Slots : Exists(slot[s]) => slot[s].n = ChunkCount

\* C4: a 2-slot deploy that fails on slot 2 after committing slot 1 leaves
\* slot 1 with the content it had immediately before the call.
C4_RollbackToPreCall ==
    \A w \in Workers :
        FailedOnSecond(w) => slot[th[w].targets[1]] = th[w].pre[th[w].targets[1]]

\* The state X's deploy to both fresh slots leaves: both slots hold X and
\* both backups hold the original content; Y is then deployed to both slots
\* and the validation of slot 2's staged copy fails.
C5_Scenario(w) ==
    /\ FailedOnSecond(w)
    /\ th[w].src = Whole("Y")
    /\ th[w].err = "new model validation failed"
    /\ \A s \in Slots : th[w].pre[s] = Whole("X") /\ th[w].preBak[s] = Original(s)

\* C5: in that scenario the call reports failure, s1 ends with the original
\* content and s2 ends with the content it had before the Y deploy.
C5_ScenarioOutcome ==
    \A w \in Workers :
        C5_Scenario(w) =>
            /\ ~th[w].success
            /\ slot[th[w].targets[1]] = Original(th[w].targets[1])
            /\ slot[th[w].targets[2]] = th[w].pre[th[w].targets[2]]

HoldsNew(w, s) == Exists(th[w].src) /\ slot[s] = th[w].src

\* C6: when a deploy has returned, each of its targets had a backup or an
\* existing target file at the start and none of them held the new artifact
\* yet, all its targets hold the new artifact or none does.
C6_AllOrNothing ==
    \A w \in Workers :
        ( /\ Returned(w, "replace")
          /\ \A s \in Range(th[w].targets) :
                /\ Exists(th[w].preBak[s]) \/ Exists(th[w].pre[s])
                /\ th[w].pre[s] # th[w].src )
        => \/ \A s \in Range(th[w].targets) : HoldsNew(w, s)
           \/ \A s \in Range(th[w].targets) : ~HoldsNew(w, s)

\* The source of the call of w is missing or fails validation.
BadSource(w) == ~Exists(th[w].src) \/ LoadMarshalError(th[w].src) # ""

\* C7: a deploy whose source is missing or invalid returns failure with an
\* error and has changed no slot, no backup and no temp file.
C7_BadSourceTouchesNothing ==
    \A w \in Workers :
        (Returned(w, "replace") /\ BadSource(w)) =>
            /\ ~th[w].success
            /\ th[w].err \in {"source model file not found", "invalid source model file"}
            /\ th[w].replaced = <<>>
            /\ slot = th[w].pre
            /\ bak = th[w].preBak
            /\ tmpnew = th[w].preTmp

\* A deploy of the invalid artifact has returned over a slot that an earlier
\* deploy had replaced and backed up.
C7_Witness ==
    \E w \in Workers :
        /\ Returned(w, "replace")
        /\ th[w].src = Whole("BAD")
        /\ th[w].err = "invalid source model file"
        /\ slot[Slot3] = Whole("X")
        /\ bak[Slot3] = Original(Slot3)

\* C8: when an evaluation session has ended, every live slot holds what it
\* held before the session began.
C8_SessionRestoresSlots ==
    \A w \in Workers :
        (th[w].pc = "idle" /\ th[w].op \in SessionKinds) => slot = th[w].pre

\* Worker w is inside the mutation window of a deploy or of a session: the
\* call has started and, for a session, is past the point where its temp
\* backup is taken.
InWindow(w) ==
    /\ th[w].op \in SessionKinds \cup {"train", "replace"}
    /\ th[w].pc \notin {"idle", "s_backup"}

\* C9: at no time are two workers inside a mutation window together.
C9_WindowsExclusive ==
    \A w1, w2 \in Workers : (InWindow(w1) /\ InWindow(w2)) => w1 = w2

WellFormed(f) ==
    /\ Exists(f)
    /\ f.n = ChunkCount
    /\ Gunzip(f.art) \in {"O3", "O2", "X", "Y"}

\* C11: the validation returns None exactly for the files whose bytes
\* deserialize into a mapping with both keys and a mapping under 'd', and an
\* error text for every other file, a missing or malformed one included.
C11_ValidateIffWellFormed ==
    checked.done => (checked.err = "" <=> WellFormed(checked.file))

\* The validation has accepted a gzip file of a model.
C11_Witness ==
    /\ checked.done
    /\ checked.file = Whole("XZ")
    /\ checked.err = ""

\* Where the model id stands in the list q.
PositionIn(q, id) == CHOOSE x \in 1 .. Len(q) : q[x].id = id

\* C12: the ranked list holds the collected results by descending accuracy,
\* results of equal accuracy in the order they were given, and its first
\* entry is the recommended model.
C12_RankingStable ==
    ranking.done =>
        LET given == ranking.results
            ranked == ranking.ranked
        IN  /\ Len(ranked) = Len(given)
            /\ Range(ranked) = Range(given)
            /\ \A x, y \in 1 .. Len(ranked) :
                  x < y =>
                      /\ ranked[x].accuracy >= ranked[y].accuracy
                      /\ ranked[x].accuracy = ranked[y].accuracy =>
                            PositionIn(given, ranked[x].id) < PositionIn(given, ranked[y].id)
            /\ ranked # <<>> => ranking.best = ranked[1].id

\* Accuracies 0.8, 0.8 and 0.6 given in the order 1, 2, 3 rank as 1, 2, 3.
C12_Witness ==
    /\ ranking.done
    /\ ranking.results = <<[id |-> 1, accuracy |-> 80], [id |-> 2, accuracy |-> 80],
                           [id |-> 3, accuracy |-> 60]>>
    /\ ranking.ranked = ranking.results
    /\ ranking.best = 1

\* C13: a restore_from_backup that found a slot file of its loop without a
\* permanent backup reports failure with the no-backup error.
C13_RestoreNeedsEveryBackup ==
    \A w \in Workers :
        ( /\ Returned(w, "restore")
          /\ \E s \in Range(th[w].targets) :
                Exists(th[w].pre[s]) /\ ~Exists(th[w].preBak[s]) )
        => /\ ~th[w].success
           /\ th[w].err = "no .backup_gui files found"

\* Worker w is back from an evaluation session.
SessionOver(w) == th[w].pc = "idle" /\ th[w].op \in SessionKinds

\* C14: when an evaluation session has ended no .temp_backup file is left.
C14_NoTempBackupLeft ==
    \A w \in Workers :
        SessionOver(w) => \A s \in Slots : ~Exists(tmpbak[s])

\* The session of w took temp backups and ended without running its restore
\* step to the end.
EndedUnrestored(w) ==
    /\ SessionOver(w)
    /\ th[w].bk # <<>>
    /\ th[w].j <= Len(th[w].bk)

\* C15: no session that took its temp backups ends without having restored
\* them, whatever happened in its deploy and benchmark steps.
C15_BackedUpEndsRestored ==
    \A w \in Workers : ~EndedUnrestored(w)

\* C16: once the stop button was pressed while a comparison scored its
\* samples, the comparison scores at most the sample it was at.
C16_CancelStopsScoring ==
    \A w \in Workers :
        (th[w].op = "compare" /\ th[w].stopAt # NotStopped) =>
            th[w].k <= th[w].stopAt + 1

\* C17: a deploy that returns failure lists no slot as replaced.
C17_FailureListsNothing ==
    \A w \in Workers :
        (Returned(w, "replace") /\ ~th[w].success) => th[w].replaced = <<>>

\* The deploy of w failed after committing a slot, and its rollback, the
\* restore_from_backup it called, restored nothing and returned failure.
RollbackFailed(w) ==
    /\ Returned(w, "replace")
    /\ th[w].replaced # <<>>
    /\ ~th[w].success
    /\ th[w].rrep = <<>>

\* C18: a rollback that itself failed is not reported as a clean rollback.
C18_FailedRollbackNotReportedClean ==
    \A w \in Workers :
        RollbackFailed(w) => th[w].log # "model_replace_rollback_ok"

C20_NoLostUpdate ==
    cat.pc = "idle" =>
        \A id \in DOMAIN cat.added :
            cat.added[id] \in disk => id \in DOMAIN persisted

\* C21: a deploy of a trained model that returns with fewer slots replaced
\* than it was aimed at (none, or only some of them) has added nothing to the
\* catalog.
C21_EntryOnlyAfterFullDeploy ==
    [][\A w \in Workers :
          ( /\ th[w].op = "train"
            /\ th[w].pc # "idle"
            /\ th'[w].pc = "idle"
            /\ Len(th'[w].replaced) < Len(th'[w].targets) )
          => /\ models' = models
             /\ persisted' = persisted]_vars

\* C22: from its start to its end an evaluation or comparison session leaves
\* every permanent backup file as it found it: none is created, changed or
\* removed.
C22_SessionKeepsPermanentBackups ==
    \A w \in Workers :
        th[w].op \in SessionKinds => bak = th[w].preBak

\* A test session of Y has run to the end of its restore over slots that a
\* deploy had backed up before.
C22_Witness ==
    \E w \in Workers :
        /\ SessionOver(w)
        /\ th[w].src = Whole("Y")
        /\ th[w].bk # <<>>
        /\ th[w].j > Len(th[w].bk)
        /\ \E s \in Slots : Exists(bak[s])

\* C23: while a session runs on a candidate that fails structural
\* validation, no live slot comes to hold bytes of that candidate.
C23_InvalidCandidateNeverLive ==
    \A w \in Workers, s \in Slots :
        ( /\ th[w].op \in SessionKinds
          /\ Exists(th[w].src)
          /\ LoadMarshalError(th[w].src) # ""
          /\ slot[s].art = th[w].src.art )
        => th[w].pre[s].art = th[w].src.art

\* C24: while a comparison scores its samples, the total it reports covers
\* every sample the loop has gone through, the ones whose scoring failed
\* included (the code keeps no other count beside it).
C24_TotalsCoverEverySample ==
    \A w \in Workers :
        (th[w].op = "compare" /\ th[w].pc = "s_bench") => th[w].total = th[w].k

\* C25: when a training left a candidate that passes structural validation,
\* the file taken as its result is such a candidate, and no valid candidate
\* is larger than it.
C25_PicksLargestValid ==
    (found.done /\ \E n \in DOMAIN found.files : found.files[n].valid) =>
        /\ found.pick # ""
        /\ found.files[found.pick].valid
        /\ \A n \in DOMAIN found.files :
              found.files[n].valid => found.files[n].size <= found.files[found.pick].size

C27_FailureLeavesOtherSlots ==
    \A w \in Workers :
        (Returned(w, "replace") /\ ~th[w].success) =>
            \A s \in Slots \ Range(th[w].targets) : slot[s] = th[w].pre[s]

\* C28: a deploy that has returned success lists all its targets in order,
\* carries no error and has left the source artifact in every target; one
\* that has returned failure carries an error.
C28_ResultConsistent ==
    \A w \in Workers :
        Returned(w, "replace") =>
            IF th[w].success
            THEN /\ th[w].replaced = th[w].targets
                 /\ th[w].targets = get_effective_model_filenames(Len(th[w].targets) = 2)
                 /\ th[w].err = ""
                 /\ \A s \in Range(th[w].targets) : slot[s] = th[w].src
            ELSE th[w].err # ""

\* A deploy of Y to both slots has succeeded over slots that held X.
C28_Witness ==
    \E w \in Workers :
        /\ Returned(w, "replace")
        /\ th[w].success
        /\ th[w].replaced = <<Slot3, SlotLegacy>>
        /\ th[w].src = Whole("Y")
        /\ \A s \in Slots : th[w].pre[s] = Whole("X") /\ slot[s] = Whole("Y")

\* Worker w is a training worker that is still running.
TrainingWorker(w) == th[w].op = "train" /\ th[w].pc # "idle"

\* C29: at no time are two training workers running.
C29_OneTrainingWorker ==
    \A w1, w2 \in Workers : (TrainingWorker(w1) /\ TrainingWorker(w2)) => w1 = w2

\* C30: an add_model of an existing file without a caller's id stores and
\* saves the new entry under the id it returns and leaves every entry registered before present
\* and unchanged, so that the catalog holds one entry more.
C30_AddKeepsOtherEntries ==
    [][(ret'.op = "add" /\ ret'.path \in disk) =>
          /\ ret'.id \in DOMAIN models'
          /\ models'[ret'.id].path = ret'.path
          /\ persisted' = models'
          /\ \A id \in DOMAIN models :
                id \in DOMAIN models' /\ models'[id] = models[id]
          /\ Cardinality(DOMAIN models') = Cardinality(DOMAIN models) + 1]_vars

====
